---- MODULE Spec2Model ----
(***************************************************************************)
(* Abstract Illicit Ecology Model (AIEM): the simulation engine AIEMModel  *)
(* (src/src/model.py), its six agent roles (src/src/agents.py) and the run *)
(* driver run_simulation (src/mesa_abm_aiem.py).                           *)
(*                                                                         *)
(* Real-valued attributes are fixed-point integers in thousandths:         *)
(* One = 1000 stands for 1.0, 50 for 0.05, 300 for 0.3.  A draw of         *)
(* random() is a value u in 0..999 (u/1000); a comparison random() < p is  *)
(* made exactly, by cross-multiplication.                                  *)
(***************************************************************************)
EXTENDS Integers, Sequences, FiniteSets, TLC

VARIABLES
    model,      \* the AIEMModel instance: agents, network, counters, metrics
    pc,         \* where the engine is: "idle" (a step boundary), "stepping"
                \* (inside step(), in the activation loop), "raised"
    pending,    \* inside step(): the agents of agent_list not yet activated
    driver,     \* what the caller has done so far: steps, policy and API calls
    lastOp,     \* the last public call made on the engine and its argument
    twin        \* a second engine built with the same parameters and seed

vars == <<model, pc, pending, driver, lastOp, twin>>

-----------------------------------------------------------------------------
(* Bounds of the model *)

\* step() calls the driver makes in one run
MaxSteps == 2
\* apply_policy_intervention calls in one run
MaxPolicy == 1
\* direct intervene_agent / report_suspicious_activity calls in one run
MaxApiCalls == 2

-----------------------------------------------------------------------------
(* Fixed-point arithmetic *)

\* 1.0
One == 1000

\* no value: an attribute the agent's class does not have (hasattr is
\* False), a reading that was not taken
Absent == -1

Min(a, b) == IF a <= b THEN a ELSE b
Max(a, b) == IF a >= b THEN a ELSE b

RECURSIVE SumSeq(_)
SumSeq(s) == IF s = <<>> THEN 0 ELSE Head(s) + SumSeq(Tail(s))

RECURSIVE SumOver(_, _)
\* sum of f[x] for x in the set S
SumOver(f, S) ==
    IF S = {} THEN 0
    ELSE LET x == CHOOSE y \in S : TRUE IN f[x] + SumOver(f, S \ {x})

\* the elements of sequence s that satisfy Keep, in order
RECURSIVE SelectIds(_, _)
SelectIds(s, keep) ==
    IF s = <<>> THEN <<>>
    ELSE IF Head(s) \in keep THEN <<Head(s)>> \o SelectIds(Tail(s), keep)
    ELSE SelectIds(Tail(s), keep)

\* a function built by [x \in S |-> e], as an explicit function value (TLC
\* keeps the constructor unevaluated otherwise)
Explicit(f) == f @@ <<>>

\* the draws random() can return, as representatives: 0.0 is below every
\* positive probability, 0.5 is above every probability the code uses
\* except a high activity success probability
DrawVals == {0, 500}

-----------------------------------------------------------------------------
(* Network substrate: a networkx Graph, as adjacency lists in insertion     *)
(* order (the order list(G.neighbors(v)) iterates in)                       *)

Nodes(G) == DOMAIN G

neighbors(G, v) == G[v]

Edges(G) == UNION {{{v, G[v][i]} : i \in 1..Len(G[v])} : v \in DOMAIN G}

\* nx.Graph.add_edge on existing nodes
add_edge(G, u, v) ==
    IF u = v \/ v \in {G[u][i] : i \in 1..Len(G[u])} THEN G
    ELSE [G EXCEPT ![u] = Append(@, v), ![v] = Append(@, u)]

\* nx.Graph.remove_edge
remove_edge(G, u, v) ==
    [G EXCEPT ![u] = SelectIds(@, (DOMAIN G) \ {v}),
              ![v] = SelectIds(@, (DOMAIN G) \ {u})]

\* remove_node that drops the node's edges and leaves the node in the graph
remove_node_EdgesOnly(G, v) ==
    Explicit([w \in DOMAIN G |->
                 IF w = v THEN <<>> ELSE SelectIds(G[w], (DOMAIN G) \ {v})])

\* remove_node that also drops every other edge of the node's neighbours
remove_node_IsolatesNeighbours(G, v) ==
    LET near == {G[v][i] : i \in 1..Len(G[v])}
    IN Explicit([w \in (DOMAIN G) \ {v} |->
                    IF w \in near THEN <<>>
                    ELSE SelectIds(G[w], (DOMAIN G) \ (near \cup {v}))])

\* nx.Graph.remove_node: the node goes, and every edge incident to it
remove_node(G, v) ==
    Explicit([w \in (DOMAIN G) \ {v} |-> SelectIds(G[w], (DOMAIN G) \ {v})])

RECURSIVE AddRing(_, _, _, _)
\* add_edges_from(zip(nodes, nodes[j:] + nodes[:j])), from node i on
AddRing(G, n, j, i) ==
    IF i >= n THEN G ELSE AddRing(add_edge(G, i, (i + j) % n), n, j, i + 1)

RECURSIVE RingLattice(_, _, _, _)
\* each node joined to its k // 2 nearest neighbours on each side
RingLattice(G, n, k, j) ==
    IF j > k \div 2 THEN G ELSE RingLattice(AddRing(G, n, j, 0), n, k, j + 1)

complete_graph(n) ==
    Explicit([v \in 0..(n - 1) |->
                 SelectIds([i \in 1..n |-> i - 1], (0..(n - 1)) \ {v})])

\* the graphs nx.watts_strogatz_graph(n, k, p, seed) can return for
\* 0 < p < 1: the ring lattice (no edge drew a rewiring), and the lattice
\* with its first edge (0, 1) rewired to (0, w).  k > n raises, k = n is
\* the complete graph.
watts_strogatz_graph(n, k) ==
    IF k > n THEN {}
    ELSE IF k = n THEN {complete_graph(n)}
    ELSE LET lattice == RingLattice(Explicit([v \in 0..(n - 1) |-> <<>>]), n, k, 1)
             free == {w \in 1..(n - 1) : {0, w} \notin Edges(lattice)}
         IN {lattice} \cup
            (IF k >= 2
             THEN {add_edge(remove_edge(lattice, 0, 1), 0, w) : w \in free}
             ELSE {})

-----------------------------------------------------------------------------
(* Construction: AIEMModel.__init__ and _create_agents *)

Roles == <<"Leader", "Operative", "Broker", "Facilitator", "CommunityMember",
           "Authority">>

IllicitRoles == {"Leader", "Operative", "Broker"}

\* the role counts of a parameter record, in creation order
Counts(p) == <<p.n_leaders, p.n_operatives, p.n_brokers, p.n_facilitators,
               p.n_community_members, p.n_authorities>>

total_agents(p) == SumSeq(Counts(p))

\* how many agents the loops of _create_agents make: range(c) is empty
\* for a negative c
created_agents(p) == SumSeq([r \in 1..Len(Counts(p)) |-> Max(0, Counts(p)[r])])

RECURSIVE RoleAt(_, _, _)
\* the role _create_agents gives agent_id: ids are handed out role by role
RoleAt(counts, id, r) ==
    IF r > Len(counts) THEN "none"
    ELSE IF id < counts[r] THEN Roles[r]
    ELSE RoleAt(counts, id - Max(0, counts[r]), r + 1)

\* AbstractAgent.__init__ and the subclass constructors: the values the
\* seeded uniform draws can give, a few per role, inside the role's ranges
InitialAttributes(role) ==
    LET base == [role |-> role, active |-> TRUE, arrest_count |-> 0,
                 resources |-> 500, legitimacy |-> 500, risk_tolerance |-> 600,
                 social_capital |-> 500, detection_exposure |-> 400,
                 economic_stress |-> Absent, reporting_propensity |-> Absent,
                 monitoring_capacity |-> Absent,
                 intervention_resources |-> Absent]
    IN CASE role = "Leader" ->
              {[base EXCEPT !.resources = 800, !.social_capital = 600,
                            !.detection_exposure = 400]}
         [] role = "Operative" ->
              {[base EXCEPT !.resources = 250, !.risk_tolerance = 600,
                            !.detection_exposure = 750,
                            !.economic_stress = 500]}
         [] role = "Broker" ->
              {[base EXCEPT !.social_capital = 700, !.detection_exposure = 900]}
         [] role = "Facilitator" ->
              {[base EXCEPT !.legitimacy = 980, !.detection_exposure = 20,
                            !.resources = 280]}
         [] role = "CommunityMember" ->
              {[base EXCEPT !.legitimacy = 900, !.reporting_propensity = 1000]}
         [] role = "Authority" ->
              {[base EXCEPT !.monitoring_capacity = 500,
                            !.intervention_resources = 1000]}

\* AIEMModel's parameters, with no agent of any role
NoAgents ==
    [n_leaders |-> 0, n_operatives |-> 0, n_brokers |-> 0,
     n_facilitators |-> 0, n_community_members |-> 0, n_authorities |-> 0,
     network_k |-> 2, initial_monitoring_capacity |-> 500,
     economic_stress_level |-> 800]

\* the parameter sets the driven engines are built with
Params ==
    {[NoAgents EXCEPT !.n_leaders = 1, !.n_operatives = 1,
                      !.n_community_members = 1, !.n_authorities = 1],
     [NoAgents EXCEPT !.n_leaders = 1, !.n_operatives = 1, !.n_brokers = 1,
                      !.n_facilitators = 1, !.n_community_members = 1,
                      !.network_k = 4],
     [NoAgents EXCEPT !.n_operatives = 1, !.n_authorities = 2]}

\* _create_agents: one agent per id, with the overrides of lines 99 and 120
create_agents(p) ==
    LET ids == 0..(created_agents(p) - 1)
        made(id) ==
            {IF a.role = "Operative"
             THEN [a EXCEPT !.economic_stress = p.economic_stress_level]
             ELSE IF a.role = "Authority"
             THEN [a EXCEPT !.monitoring_capacity = p.initial_monitoring_capacity]
             ELSE a : a \in InitialAttributes(RoleAt(Counts(p), id, 1))}
    IN {ag \in [ids -> UNION {made(id) : id \in ids}] :
            \A id \in ids : ag[id] \in made(id)}

\* AIEMModel.__init__
NewModels(p) ==
    {[params |-> p, agents |-> ag, network |-> G,
      arrests_this_step |-> 0, reports_this_step |-> 0,
      recent_arrest_rate |-> 0, running |-> TRUE,
      datacollector |-> <<>>,
      calls |-> [intervene_agent |-> 0, report_suspicious_activity |-> 0]] :
        ag \in create_agents(p),
        G \in watts_strogatz_graph(total_agents(p), p.network_k)}

-----------------------------------------------------------------------------
(* Aggregate queries of AIEMModel *)

Ids(m) == DOMAIN m.agents

\* the agents of m as the list self.agents iterates: in creation (id) order
AgentList(m) == [i \in 1..Cardinality(Ids(m)) |-> i - 1]

count_active_by_role(m, role) ==
    Cardinality({a \in Ids(m) : m.agents[a].role = role /\ m.agents[a].active})

active_illicit(m) ==
    count_active_by_role(m, "Leader") + count_active_by_role(m, "Operative")
        + count_active_by_role(m, "Broker")

\* total_resources that leaves inactive agents out
total_resources_ActiveOnly(m) ==
    LET act == {a \in Ids(m) : m.agents[a].active}
    IN SumOver([a \in act |-> m.agents[a].resources], act)

total_resources(m) ==
    SumOver([a \in Ids(m) |-> m.agents[a].resources], Ids(m))

average_detection_exposure(m) ==
    LET act == {a \in Ids(m) : m.agents[a].active}
    IN IF act = {} THEN 0
       ELSE SumOver([a \in act |-> m.agents[a].detection_exposure], act)
                \div Cardinality(act)

\* nx.density
density(G) ==
    LET n == Cardinality(Nodes(G))
        e == Cardinality(Edges(G))
    IN IF e = 0 \/ n <= 1 THEN 0 ELSE (2 * e * One) \div (n * (n - 1))

\* nx.clustering of one node: the share of its neighbour pairs that are joined
clustering(G, v) ==
    LET nb == {G[v][i] : i \in 1..Len(G[v])}
        d == Cardinality(nb)
        t == Cardinality({e \in Edges(G) : e \subseteq nb /\ Cardinality(e) = 2})
    IN IF t = 0 THEN 0 ELSE (2 * t * One) \div (d * (d - 1))

\* nx.average_clustering: sum(c) / len(c), a ZeroDivisionError on no nodes
average_clustering(G) ==
    IF Nodes(G) = {} THEN Absent
    ELSE SumOver([v \in Nodes(G) |-> clustering(G, v)], Nodes(G))
             \div Cardinality(Nodes(G))

\* DataCollector.collect: one reading per model reporter
collect(m) ==
    [ActiveLeaders |-> count_active_by_role(m, "Leader"),
     ActiveOperatives |-> count_active_by_role(m, "Operative"),
     ActiveBrokers |-> count_active_by_role(m, "Broker"),
     ActiveFacilitators |-> count_active_by_role(m, "Facilitator"),
     TotalResources |-> total_resources(m),
     AverageDetectionExposure |-> average_detection_exposure(m),
     ArrestsThisStep |-> m.arrests_this_step,
     ReportsThisStep |-> m.reports_this_step,
     NetworkDensity |-> density(m.network),
     AverageClustering |-> average_clustering(m.network)]

-----------------------------------------------------------------------------
(* The callbacks agents and callers make on the engine *)

\* the call is counted, whatever it then does
Called(m, name) == [m EXCEPT !.calls[name] = @ + 1]

\* Arrest that deactivates at the third arrest, not the second
Arrest_AtThree(m, agent_id) ==
    LET n == m.agents[agent_id].arrest_count + 1
        m1 == [m EXCEPT !.agents[agent_id].arrest_count = n,
                        !.arrests_this_step = @ + 1]
    IN IF n >= 3
       THEN [m1 EXCEPT !.agents[agent_id].active = FALSE,
                       !.network = IF agent_id \in Nodes(@)
                                   THEN remove_node(@, agent_id) ELSE @]
       ELSE m1

\* Arrest that clears the arrest record of the agent it deactivates
Arrest_ResetsCount(m, agent_id) ==
    LET n == m.agents[agent_id].arrest_count + 1
        m1 == [m EXCEPT !.agents[agent_id].arrest_count = n,
                        !.arrests_this_step = @ + 1]
    IN IF n >= 2
       THEN [m1 EXCEPT !.agents[agent_id].active = FALSE,
                       !.agents[agent_id].arrest_count = 0,
                       !.network = IF agent_id \in Nodes(@)
                                   THEN remove_node(@, agent_id) ELSE @]
       ELSE m1

\* Arrest that deactivates at the first arrest
Arrest_AtFirst(m, agent_id) ==
    LET n == m.agents[agent_id].arrest_count + 1
        m1 == [m EXCEPT !.agents[agent_id].arrest_count = n,
                        !.arrests_this_step = @ + 1]
    IN IF n >= 1
       THEN [m1 EXCEPT !.agents[agent_id].active = FALSE,
                       !.network = IF agent_id \in Nodes(@)
                                   THEN remove_node(@, agent_id) ELSE @]
       ELSE m1

\* Arrest that counts every arrest twice
Arrest_CountsDouble(m, agent_id) ==
    LET n == m.agents[agent_id].arrest_count + 2
        m1 == [m EXCEPT !.agents[agent_id].arrest_count = n,
                        !.arrests_this_step = @ + 1]
    IN IF n >= 2
       THEN [m1 EXCEPT !.agents[agent_id].active = FALSE,
                       !.network = IF agent_id \in Nodes(@)
                                   THEN remove_node(@, agent_id) ELSE @]
       ELSE m1

\* AIEMModel.intervene_agent, once the target is found and active
Arrest(m, agent_id) ==
    LET n == m.agents[agent_id].arrest_count + 1
        m1 == [m EXCEPT !.agents[agent_id].arrest_count = n,
                        !.arrests_this_step = @ + 1]
    IN IF n >= 2
       THEN [m1 EXCEPT !.agents[agent_id].active = FALSE,
                       !.network = IF agent_id \in Nodes(@)
                                   THEN remove_node(@, agent_id) ELSE @]
       ELSE m1

\* intervene_agent without the test of agent.active
intervene_agent_NoActiveCheck(m, agent_id) ==
    IF agent_id \in Ids(m)
    THEN Arrest(Called(m, "intervene_agent"), agent_id)
    ELSE Called(m, "intervene_agent")

intervene_agent(m, agent_id) ==
    IF agent_id \in Ids(m) /\ m.agents[agent_id].active
    THEN Arrest(Called(m, "intervene_agent"), agent_id)
    ELSE Called(m, "intervene_agent")

\* report_suspicious_activity that exposes active targets only
report_suspicious_activity_ActiveOnly(m, target_agent_id) ==
    LET m1 == [Called(m, "report_suspicious_activity")
                   EXCEPT !.reports_this_step = @ + 1]
    IN IF target_agent_id \in Ids(m) /\ m.agents[target_agent_id].active
       THEN [m1 EXCEPT !.agents[target_agent_id].detection_exposure =
                           Min(One, @ + 200)]
       ELSE m1

report_suspicious_activity(m, target_agent_id) ==
    LET m1 == [Called(m, "report_suspicious_activity")
                   EXCEPT !.reports_this_step = @ + 1]
    IN IF target_agent_id \in Ids(m)
       THEN [m1 EXCEPT !.agents[target_agent_id].detection_exposure =
                           Min(One, @ + 200)]
       ELSE m1

\* intensity * 0.3 and intensity * 0.2
Times03(x) == (x * 3) \div 10
Times02(x) == (x * 2) \div 10

\* apply_policy_intervention whose monitoring branch has no min(1.0, ...)
apply_policy_intervention_NoCap(m, intervention_type, intensity) ==
    LET upd(a) ==
          CASE intervention_type = "monitoring" /\ a.role = "Authority" ->
                 [a EXCEPT !.monitoring_capacity = @ + Times03(intensity)]
            [] intervention_type = "economic_support"
                   /\ a.role \in {"Operative", "CommunityMember"} ->
                 [a EXCEPT !.economic_stress =
                               IF @ = Absent THEN @
                               ELSE Max(0, @ - Times03(intensity)),
                           !.resources = @ + Times02(intensity)]
            [] intervention_type = "community_engagement"
                   /\ a.role = "CommunityMember" ->
                 [a EXCEPT !.reporting_propensity = Min(One, @ + Times02(intensity))]
            [] OTHER -> a
    IN [m EXCEPT !.agents = Explicit([id \in Ids(m) |-> upd(m.agents[id])])]

\* apply_policy_intervention that takes a kind it does not know for
\* 'monitoring'
apply_policy_intervention_ElseMonitoring(m, intervention_type, intensity) ==
    LET upd(a) ==
          CASE intervention_type = "economic_support"
                   /\ a.role \in {"Operative", "CommunityMember"} ->
                 [a EXCEPT !.economic_stress =
                               IF @ = Absent THEN @
                               ELSE Max(0, @ - Times03(intensity)),
                           !.resources = @ + Times02(intensity)]
            [] intervention_type = "community_engagement"
                   /\ a.role = "CommunityMember" ->
                 [a EXCEPT !.reporting_propensity = Min(One, @ + Times02(intensity))]
            [] intervention_type \notin {"economic_support", "community_engagement"}
                   /\ a.role = "Authority" ->
                 [a EXCEPT !.monitoring_capacity = Min(One, @ + Times03(intensity))]
            [] OTHER -> a
    IN [m EXCEPT !.agents = Explicit([id \in Ids(m) |-> upd(m.agents[id])])]

\* apply_policy_intervention that passes over the inactive agents
apply_policy_intervention_ActiveOnly(m, intervention_type, intensity) ==
    LET upd(a) ==
          CASE intervention_type = "monitoring" /\ a.role = "Authority" ->
                 [a EXCEPT !.monitoring_capacity = Min(One, @ + Times03(intensity))]
            [] intervention_type = "economic_support" /\ a.active
                   /\ a.role \in {"Operative", "CommunityMember"} ->
                 [a EXCEPT !.economic_stress =
                               IF @ = Absent THEN @
                               ELSE Max(0, @ - Times03(intensity)),
                           !.resources = @ + Times02(intensity)]
            [] intervention_type = "community_engagement" /\ a.active
                   /\ a.role = "CommunityMember" ->
                 [a EXCEPT !.reporting_propensity = Min(One, @ + Times02(intensity))]
            [] OTHER -> a
    IN [m EXCEPT !.agents = Explicit([id \in Ids(m) |-> upd(m.agents[id])])]

apply_policy_intervention(m, intervention_type, intensity) ==
    LET upd(a) ==
          CASE intervention_type = "monitoring" /\ a.role = "Authority" ->
                 [a EXCEPT !.monitoring_capacity = Min(One, @ + Times03(intensity))]
            [] intervention_type = "economic_support"
                   /\ a.role \in {"Operative", "CommunityMember"} ->
                 [a EXCEPT !.economic_stress =
                               IF @ = Absent THEN @
                               ELSE Max(0, @ - Times03(intensity)),
                           !.resources = @ + Times02(intensity)]
            [] intervention_type = "community_engagement"
                   /\ a.role = "CommunityMember" ->
                 [a EXCEPT !.reporting_propensity = Min(One, @ + Times02(intensity))]
            [] OTHER -> a
    IN [m EXCEPT !.agents = Explicit([id \in Ids(m) |-> upd(m.agents[id])])]

-----------------------------------------------------------------------------
(* Agent behaviour (src/src/agents.py).  An operator that draws takes the   *)
(* draws to come, us, and returns the engine with the draws left over.      *)

AbstractAgent_update_social_capital(m, id) ==
    LET nb == neighbors(m.network, id)
        legitimacies == [i \in 1..Len(nb) |-> m.agents[nb[i]].legitimacy]
        avg == SumSeq(legitimacies) \div Len(nb)
    IN IF Len(nb) > 0
       THEN [m EXCEPT !.agents[id].social_capital = (7 * @ + 3 * avg) \div 10]
       ELSE m

\* adjust_risk_from_environment that lowers risk_tolerance whatever the rate
AbstractAgent_adjust_risk_from_environment_Always(m, id) ==
    [m EXCEPT !.agents[id].risk_tolerance = (@ * 95) \div 100]

AbstractAgent_adjust_risk_from_environment(m, id) ==
    IF m.recent_arrest_rate > 100
    THEN [m EXCEPT !.agents[id].risk_tolerance = (@ * 95) \div 100]
    ELSE m

AbstractAgent_step(m, id) ==
    IF ~m.agents[id].active THEN m
    ELSE AbstractAgent_adjust_risk_from_environment(
             AbstractAgent_update_social_capital(m, id), id)

Leader_distribute_resources(m, id) ==
    LET nb == neighbors(m.network, id)
        distribution_amount == m.agents[id].resources \div 10
        transfer == distribution_amount \div Len(nb)
        to == [i \in 1..Len(nb) |->
                 IF m.agents[nb[i]].role \in {"Operative", "Broker"}
                 THEN transfer ELSE 0]
        got(a) == SumSeq([i \in 1..Len(nb) |-> IF nb[i] = a THEN to[i] ELSE 0])
    IN IF Len(nb) > 0 /\ m.agents[id].resources > 300
       THEN [m EXCEPT !.agents = Explicit(
                [a \in Ids(m) |->
                    IF a = id
                    THEN [m.agents[a] EXCEPT !.resources = @ - SumSeq(to)]
                    ELSE [m.agents[a] EXCEPT !.resources = @ + got(a)]])]
       ELSE m

Leader_step(m, id) ==
    LET m1 == AbstractAgent_step(m, id)
    IN IF ~m1.agents[id].active THEN m1 ELSE Leader_distribute_resources(m1, id)

\* random() < social_capital * (1 - detection_exposure)
Operative_perform_abstract_activity(m, id, us) ==
    LET a == m.agents[id]
    IN IF a.risk_tolerance > 500 /\ a.resources < 300
       THEN [m |-> IF Head(us) * One < a.social_capital * (One - a.detection_exposure)
                   THEN [m EXCEPT !.agents[id].resources = @ + 100]
                   ELSE [m EXCEPT !.agents[id].detection_exposure = Min(One, @ + 100)],
             us |-> Tail(us)]
       ELSE [m |-> m, us |-> us]

Operative_step(m, id, us) ==
    LET m1 == AbstractAgent_step(m, id)
        m2 == IF m1.agents[id].economic_stress > 700
              THEN [m1 EXCEPT !.agents[id].risk_tolerance = Min(One, @ + 50)]
              ELSE m1
    IN IF ~m1.agents[id].active THEN [m |-> m1, us |-> us]
       ELSE Operative_perform_abstract_activity(m2, id, us)

Broker_mediate_connections(m, id) ==
    LET nb == neighbors(m.network, id)
    IN IF Len(nb) >= 2
       THEN [m EXCEPT !.agents[id].resources = @ + Len(nb) * 20]
       ELSE m

Broker_step(m, id) ==
    LET m1 == AbstractAgent_step(m, id)
    IN IF ~m1.agents[id].active THEN m1 ELSE Broker_mediate_connections(m1, id)

\* maintain_legitimacy without the cap and the floor
Facilitator_maintain_legitimacy_NoClamp(m, id) ==
    IF m.agents[id].resources > 200
    THEN [m EXCEPT !.agents[id].resources = @ - 50,
                   !.agents[id].legitimacy = @ + 50,
                   !.agents[id].detection_exposure = @ - 50]
    ELSE m

Facilitator_maintain_legitimacy(m, id) ==
    IF m.agents[id].resources > 200
    THEN [m EXCEPT !.agents[id].resources = @ - 50,
                   !.agents[id].legitimacy = Min(One, @ + 50),
                   !.agents[id].detection_exposure = Max(0, @ - 50)]
    ELSE m

Facilitator_step(m, id) ==
    LET m1 == AbstractAgent_step(m, id)
    IN IF ~m1.agents[id].active THEN m1
       ELSE Facilitator_maintain_legitimacy(m1, id)

RECURSIVE CommunityMember_consider_reporting_Intervenes(_, _, _, _)
\* consider_reporting that calls intervene_agent where it should report
CommunityMember_consider_reporting_Intervenes(m, id, nb, us) ==
    IF nb = <<>> THEN [m |-> m, us |-> us]
    ELSE IF m.agents[Head(nb)].detection_exposure > 700
    THEN CommunityMember_consider_reporting_Intervenes(
             IF Head(us) * 10 < m.agents[id].reporting_propensity
             THEN intervene_agent(m, Head(nb)) ELSE m,
             id, Tail(nb), Tail(us))
    ELSE CommunityMember_consider_reporting_Intervenes(m, id, Tail(nb), us)

RECURSIVE CommunityMember_consider_reporting(_, _, _, _)
\* the loop over the neighbour list nb, taken before the loop starts:
\* random() < reporting_propensity * 0.1 for each exposed neighbour
CommunityMember_consider_reporting(m, id, nb, us) ==
    IF nb = <<>> THEN [m |-> m, us |-> us]
    ELSE IF m.agents[Head(nb)].detection_exposure > 700
    THEN CommunityMember_consider_reporting(
             IF Head(us) * 10 < m.agents[id].reporting_propensity
             THEN report_suspicious_activity(m, Head(nb)) ELSE m,
             id, Tail(nb), Tail(us))
    ELSE CommunityMember_consider_reporting(m, id, Tail(nb), us)

CommunityMember_step(m, id, us) ==
    LET m1 == AbstractAgent_step(m, id)
    IN IF ~m1.agents[id].active THEN [m |-> m1, us |-> us]
       ELSE CommunityMember_consider_reporting(
                m1, id, neighbors(m1.network, id), us)

\* the Authority's test without agent.active
Monitored_AnyIllicit(a) == a.role \in IllicitRoles

\* the Authority's test without the roles
Monitored_AnyActive(a) == a.active

\* whether the Authority looks at this agent: line 241
Monitored(a) == a.role \in IllicitRoles /\ a.active

RECURSIVE Authority_monitor_and_intervene_FloorsAtZero(_, _, _, _)
\* monitor_and_intervene whose intervention_resources stop at 0.0
Authority_monitor_and_intervene_FloorsAtZero(m, id, agents, us) ==
    IF agents = <<>>
    THEN [m |-> [m EXCEPT !.agents[id].intervention_resources = Min(One, @ + 50)],
          us |-> us]
    ELSE IF Monitored(m.agents[Head(agents)])
    THEN Authority_monitor_and_intervene_FloorsAtZero(
             IF Head(us) * 100000 <
                    m.agents[Head(agents)].detection_exposure
                        * m.agents[id].monitoring_capacity * 5
             THEN [intervene_agent(m, Head(agents))
                       EXCEPT !.agents[id].intervention_resources =
                                  Max(0, @ - 100)]
             ELSE m,
             id, Tail(agents), Tail(us))
    ELSE Authority_monitor_and_intervene_FloorsAtZero(m, id, Tail(agents), us)

RECURSIVE Authority_monitor_and_intervene(_, _, _, _)
\* the loop over self.model.agents, from the list `agents` on:
\* random() < detection_exposure * monitoring_capacity * 0.05
Authority_monitor_and_intervene(m, id, agents, us) ==
    IF agents = <<>>
    THEN [m |-> [m EXCEPT !.agents[id].intervention_resources = Min(One, @ + 50)],
          us |-> us]
    ELSE IF Monitored(m.agents[Head(agents)])
    THEN Authority_monitor_and_intervene(
             IF Head(us) * 100000 <
                    m.agents[Head(agents)].detection_exposure
                        * m.agents[id].monitoring_capacity * 5
             THEN [intervene_agent(m, Head(agents))
                       EXCEPT !.agents[id].intervention_resources = @ - 100]
             ELSE m,
             id, Tail(agents), Tail(us))
    ELSE Authority_monitor_and_intervene(m, id, Tail(agents), us)

Authority_step(m, id, us) ==
    Authority_monitor_and_intervene(AbstractAgent_step(m, id), id, AgentList(m), us)

\* agent.step(), by the agent's class
agent_step(m, id, us) ==
    LET role == m.agents[id].role
    IN CASE role = "Leader" -> [m |-> Leader_step(m, id), us |-> us]
         [] role = "Operative" -> Operative_step(m, id, us)
         [] role = "Broker" -> [m |-> Broker_step(m, id), us |-> us]
         [] role = "Facilitator" -> [m |-> Facilitator_step(m, id), us |-> us]
         [] role = "CommunityMember" -> CommunityMember_step(m, id, us)
         [] role = "Authority" -> Authority_step(m, id, us)

-----------------------------------------------------------------------------
(* AIEMModel.step, in three parts: the reset, the activation loop (one      *)
(* agent of the shuffled list at a time), and the statistics                *)

step_reset(m) ==
    [m EXCEPT !.arrests_this_step = 0, !.reports_this_step = 0,
              !.calls = [intervene_agent |-> 0, report_suspicious_activity |-> 0]]

\* step's statistics without the stopping condition of lines 222-223
step_finish_KeepsRunning(m) ==
    LET n == active_illicit(m)
        m1 == [m EXCEPT !.recent_arrest_rate =
                            IF n > 0 THEN (m.arrests_this_step * One) \div n ELSE 0]
    IN [m1 EXCEPT !.datacollector = Append(@, collect(m1))]

\* step's statistics with a recorder that keeps the latest row only
step_finish_KeepsLastRow(m) ==
    LET n == active_illicit(m)
        m1 == [m EXCEPT !.recent_arrest_rate =
                            IF n > 0 THEN (m.arrests_this_step * One) \div n ELSE 0]
        m2 == [m1 EXCEPT !.datacollector = <<collect(m1)>>]
    IN IF n = 0 THEN [m2 EXCEPT !.running = FALSE] ELSE m2

\* lines 209-223; collect raises when average_clustering does, after the
\* other nine readings are appended and before running is looked at
step_finish(m) ==
    LET n == active_illicit(m)
        m1 == [m EXCEPT !.recent_arrest_rate =
                            IF n > 0 THEN (m.arrests_this_step * One) \div n ELSE 0]
        m2 == [m1 EXCEPT !.datacollector = Append(@, collect(m1))]
    IN IF Nodes(m.network) = {} THEN m2
       ELSE IF n = 0 THEN [m2 EXCEPT !.running = FALSE] ELSE m2

\* how many draws the activation of agent id can consume at most: one per
\* neighbour, one per monitored agent, one activity roll
MaxDraws(m, id) ==
    LET a == m.agents[id]
    IN CASE a.role = "Operative" -> 1
         [] a.role = "CommunityMember" /\ a.active ->
                Len(neighbors(m.network, id))
         [] a.role = "Authority" ->
                Cardinality({b \in Ids(m) : Monitored(m.agents[b])})
         [] OTHER -> 0

\* the sequences of draws the seeded generator can give that activation
Draws(m, id) == [1..MaxDraws(m, id) -> DrawVals]

-----------------------------------------------------------------------------
(* The state machine *)

NoEngine == "none"

NoCalls == [steps |-> 0, policy |-> 0, api |-> 0]

\* after AIEMModel(**p) returns, for one of the parameter sets ps
Constructed(ps) ==
    /\ model \in UNION {NewModels(p) : p \in ps}
    /\ pc = "idle"
    /\ pending = {}
    /\ driver = NoCalls
    /\ lastOp = [op |-> "__init__"]

Init == Constructed(Params) /\ twin = NoEngine

\* step(): lines 199-205, the reset and the shuffle
StepBegin ==
    /\ pc = "idle"
    /\ driver.steps < MaxSteps
    /\ model' = step_reset(model)
    /\ pending' = Ids(model)
    /\ pc' = "stepping"
    /\ lastOp' = [op |-> "step"]
    /\ UNCHANGED <<driver, twin>>

\* an active agent's step() starts by listing its neighbours, and
\* network.neighbors raises NetworkXError for an id that is not a node
NoSuchNode(m, id) == m.agents[id].active /\ id \notin Nodes(m.network)

\* step(): lines 206-207, the next agent of the shuffled list acts; any
\* agent not yet activated can be next
Activate(a) ==
    /\ pc = "stepping"
    /\ a \in pending
    /\ IF NoSuchNode(model, a)
       THEN /\ pc' = "raised"
            /\ UNCHANGED <<model, pending>>
       ELSE /\ \E us \in Draws(model, a) : model' = agent_step(model, a, us).m
            /\ pending' = pending \ {a}
            /\ pc' = pc
    /\ UNCHANGED <<driver, lastOp, twin>>

\* step(): lines 209-223, once every agent has acted
StepEnd ==
    /\ pc = "stepping"
    /\ pending = {}
    /\ model' = step_finish(model)
    /\ pc' = IF Nodes(model.network) = {} THEN "raised" ELSE "idle"
    /\ driver' = [driver EXCEPT !.steps = @ + 1]
    /\ UNCHANGED <<pending, lastOp, twin>>

InterventionTypes ==
    {"monitoring", "economic_support", "community_engagement", "unknown"}

Intensities == {1000}

\* run_simulation, lines 60-66: a scheduled intervention, between steps
Policy(kind, intensity) ==
    /\ pc = "idle"
    /\ driver.policy < MaxPolicy
    /\ model' = apply_policy_intervention(model, kind, intensity)
    /\ driver' = [driver EXCEPT !.policy = @ + 1]
    /\ lastOp' = [op |-> "apply_policy_intervention", kind |-> kind,
                  intensity |-> intensity]
    /\ UNCHANGED <<pc, pending, twin>>

\* the ids a caller can pass: every agent's, and one no agent has
CallIds(m) == Ids(m) \cup {Cardinality(Ids(m))}

\* a caller's own intervene_agent(id), between steps
ApiIntervene(id) ==
    /\ pc = "idle"
    /\ driver.api < MaxApiCalls
    /\ model' = intervene_agent(model, id)
    /\ driver' = [driver EXCEPT !.api = @ + 1]
    /\ lastOp' = [op |-> "intervene_agent", id |-> id,
                  active |-> id \in Ids(model) /\ model.agents[id].active]
    /\ UNCHANGED <<pc, pending, twin>>

\* a caller's own report_suspicious_activity(id), between steps
ApiReport(id) ==
    /\ pc = "idle"
    /\ driver.api < MaxApiCalls
    /\ model' = report_suspicious_activity(model, id)
    /\ driver' = [driver EXCEPT !.api = @ + 1]
    /\ lastOp' = [op |-> "report_suspicious_activity", id |-> id,
                  active |-> id \in Ids(model) /\ model.agents[id].active]
    /\ UNCHANGED <<pc, pending, twin>>

\* the run driver: steps and scheduled interventions only
Next ==
    \/ StepBegin
    \/ \E a \in pending : Activate(a)
    \/ StepEnd
    \/ \E kind \in InterventionTypes, intensity \in Intensities :
           Policy(kind, intensity)

Spec == Init /\ [][Next]_vars

\* any caller of the engine's public methods
NextApi ==
    \/ Next
    \/ \E id \in CallIds(model) : ApiIntervene(id)
    \/ \E id \in CallIds(model) : ApiReport(id)

\* smaller populations, for the runs with a caller's own calls
ApiParams ==
    {[NoAgents EXCEPT !.n_operatives = 1, !.n_authorities = 1],
     [NoAgents EXCEPT !.n_operatives = 1, !.network_k = 1]}

InitApi == Constructed(ApiParams) /\ twin = NoEngine

SpecApi == InitApi /\ [][NextApi]_vars

-----------------------------------------------------------------------------
(* Two engines built from the same parameters and the same seed, given the  *)
(* same calls. self.random is seeded (lines 36-38), so both engines read    *)
(* the same sequence of random() values, each at its own position; the      *)
(* activation order comes from the random module's own generator (line      *)
(* 205), which the constructor does not seed, so each engine has its own.   *)

MaxStream == 6

\* the orders random.shuffle can leave the agent list in
Orders(m) ==
    {o \in [1..Cardinality(Ids(m)) -> Ids(m)] :
        \A i, j \in DOMAIN o : o[i] = o[j] => i = j}

RECURSIVE activate_all(_, _, _)
\* the loop of lines 206-207 over the shuffled list, reading self.random
activate_all(m, order, us) ==
    IF order = <<>> THEN [m |-> m, us |-> us]
    ELSE LET r == agent_step(m, Head(order), us)
         IN activate_all(r.m, Tail(order), r.us)

\* step() as a whole, for the order the shuffle gave and the values us
\* that self.random has still to give
step(m, order, us) ==
    LET r == activate_all(step_reset(m), order, us)
    IN [m |-> step_finish(r.m), us |-> r.us]

\* the most random() values one step() can read
StepDraws(m) == SumOver([a \in Ids(m) |-> MaxDraws(m, a)], Ids(m))

TwinParams ==
    {[NoAgents EXCEPT !.n_operatives = 1, !.n_authorities = 1],
     [NoAgents EXCEPT !.n_operatives = 1, !.n_authorities = 2]}

\* both constructors have returned; the seed fixes the values of random()
InitTwin ==
    /\ Constructed(TwinParams)
    /\ \E us \in [1..MaxStream -> DrawVals] :
           twin = [model |-> model, random |-> us, random2 |-> us]

\* step() on both engines
TwinStep ==
    /\ pc = "idle"
    /\ driver.steps < MaxSteps
    /\ Len(twin.random) >= StepDraws(model)
    /\ Len(twin.random2) >= StepDraws(twin.model)
    /\ \E order \in Orders(model), order2 \in Orders(twin.model) :
           LET r == step(model, order, twin.random)
               r2 == step(twin.model, order2, twin.random2)
           IN /\ model' = r.m
              /\ twin' = [model |-> r2.m, random |-> r.us, random2 |-> r2.us]
    /\ pc' = IF Nodes(model.network) = {} \/ Nodes(twin.model.network) = {}
             THEN "raised" ELSE "idle"
    /\ driver' = [driver EXCEPT !.steps = @ + 1]
    /\ lastOp' = [op |-> "step"]
    /\ UNCHANGED pending

\* the same scheduled intervention on both engines
TwinPolicy(kind, intensity) ==
    /\ pc = "idle"
    /\ driver.policy < MaxPolicy
    /\ model' = apply_policy_intervention(model, kind, intensity)
    /\ twin' = [twin EXCEPT
                    !.model = apply_policy_intervention(@, kind, intensity)]
    /\ driver' = [driver EXCEPT !.policy = @ + 1]
    /\ lastOp' = [op |-> "apply_policy_intervention", kind |-> kind,
                  intensity |-> intensity]
    /\ UNCHANGED <<pc, pending>>

NextTwin ==
    \/ TwinStep
    \/ \E kind \in InterventionTypes, intensity \in Intensities :
           TwinPolicy(kind, intensity)

SpecTwin == InitTwin /\ [][NextTwin]_vars

-----------------------------------------------------------------------------
(* A caller that applies policy interventions of its own, any number of     *)
(* them between steps and with any intensity                                *)

PolicyIntensities == {500, 1000}

\* a caller's own apply_policy_intervention(kind, intensity), between steps
ApiPolicy(kind, intensity) ==
    /\ pc = "idle"
    /\ driver.api < MaxApiCalls
    /\ model' = apply_policy_intervention(model, kind, intensity)
    /\ driver' = [driver EXCEPT !.api = @ + 1]
    /\ lastOp' = [op |-> "apply_policy_intervention", kind |-> kind,
                  intensity |-> intensity]
    /\ UNCHANGED <<pc, pending, twin>>

NextPolicy ==
    \/ StepBegin
    \/ \E a \in pending : Activate(a)
    \/ StepEnd
    \/ \E kind \in InterventionTypes, intensity \in PolicyIntensities :
           ApiPolicy(kind, intensity)

PolicyParams ==
    {[NoAgents EXCEPT !.n_operatives = 1, !.n_community_members = 1,
                      !.n_authorities = 1],
     [NoAgents EXCEPT !.n_operatives = 1, !.n_authorities = 2,
                      !.network_k = 1]}

InitPolicy == Constructed(PolicyParams) /\ twin = NoEngine

SpecPolicy == InitPolicy /\ [][NextPolicy]_vars

-----------------------------------------------------------------------------
(* A caller that passes intensities outside [0, 1]: the method takes any    *)
(* number                                                                   *)

AnyIntensities == {-2000, 500, 3000}

NextIntensity ==
    \/ StepBegin
    \/ \E a \in pending : Activate(a)
    \/ StepEnd
    \/ \E kind \in InterventionTypes, intensity \in AnyIntensities :
           ApiPolicy(kind, intensity)

InitIntensity == Constructed(PolicyParams) /\ twin = NoEngine

SpecIntensity == InitIntensity /\ [][NextIntensity]_vars

-----------------------------------------------------------------------------
(* Steps seen one at a time: twin holds the engine as it was when the       *)
(* current step() was called (as constructed, before the first call)        *)

\* step(): lines 199-205, with the engine it was called on kept aside
StepBeginFrom ==
    /\ pc = "idle"
    /\ driver.steps < MaxSteps
    /\ twin' = model
    /\ model' = step_reset(model)
    /\ pending' = Ids(model)
    /\ pc' = "stepping"
    /\ lastOp' = [op |-> "step"]
    /\ UNCHANGED driver

NextStepwise ==
    \/ StepBeginFrom
    \/ \E a \in pending : Activate(a)
    \/ StepEnd

InitStepwise == Constructed(Params) /\ twin = model

SpecStepwise == InitStepwise /\ [][NextStepwise]_vars

-----------------------------------------------------------------------------
(* Engines built from parameters the constructor does not check: a negative *)
(* role count, network_k equal to the number of agents, network_k above it  *)

ConfigParams ==
    {[NoAgents EXCEPT !.n_leaders = -1, !.n_operatives = 3,
                      !.n_authorities = 1],
     [NoAgents EXCEPT !.n_operatives = 1, !.n_authorities = 1],
     [NoAgents EXCEPT !.n_operatives = 1]}

InitConfig == Constructed(ConfigParams) /\ twin = NoEngine

SpecConfig == InitConfig /\ [][Next]_vars

-----------------------------------------------------------------------------
(* One Authority among enough Leaders for its scan to spend more than it    *)
(* has: six, each of which it can arrest once in each of two steps          *)

ScanParams ==
    {[NoAgents EXCEPT !.n_leaders = 6, !.n_authorities = 1, !.network_k = 1]}

InitScan == Constructed(ScanParams) /\ twin = NoEngine

\* step() calls only
NextScan ==
    \/ StepBegin
    \/ \E a \in pending : Activate(a)
    \/ StepEnd

SpecScan == InitScan /\ [][NextScan]_vars

-----------------------------------------------------------------------------
(* Properties *)

Agents == model.agents

Inactive == {a \in Ids(model) : ~Agents[a].active}

Rows == model.datacollector

\* the illicit agents a metrics row counts as active
RowIllicit(row) == row.ActiveLeaders + row.ActiveOperatives + row.ActiveBrokers

\* C1: at every step boundary, for every agent: arrest_count >= 2 iff the
\* agent is inactive iff its id is not a node of the network
C1_ArrestedInactiveRemoved ==
    pc = "idle" =>
        \A a \in Ids(model) :
            /\ (Agents[a].arrest_count >= 2) <=> ~Agents[a].active
            /\ ~Agents[a].active <=> a \notin Nodes(model.network)

\* a step boundary with one agent arrested twice and gone, another arrested
\* once and still there
C1_Witness ==
    /\ pc = "idle"
    /\ \E a, b \in Ids(model) :
          /\ Agents[a].arrest_count = 2 /\ ~Agents[a].active
          /\ a \notin Nodes(model.network)
          /\ Agents[b].arrest_count = 1 /\ Agents[b].active
          /\ b \in Nodes(model.network)

\* C2: two engines built with the same parameters and the same seed and
\* given the same calls have identical metrics tables
C2_SameSeedSameTable ==
    twin.model.datacollector = model.datacollector

\* C3: running is true from construction; it is false exactly when some
\* step() has ended with no active Leader, Operative or Broker, so the
\* first such step clears it and nothing later sets it again; and it is
\* false only if no illicit agent is active
C3_RunningUntilNoIllicit ==
    /\ Rows = <<>> => model.running
    /\ model.running <=> \A k \in 1..Len(Rows) : RowIllicit(Rows[k]) > 0
    /\ ~model.running => active_illicit(model) = 0

\* the engine stopped at the first step, and a policy call and a second
\* step followed
C3_Witness ==
    /\ pc = "idle"
    /\ Len(Rows) = 2
    /\ RowIllicit(Rows[1]) = 0
    /\ driver.policy > 0
    /\ ~model.running

\* C4: the counters are zero when a step's activations start; from then
\* to the end of the step each is non-negative and is the number of
\* intervene_agent (report_suspicious_activity) calls made in the step
C4_CountersCountCalls ==
    /\ (pc = "stepping" /\ pending = Ids(model)) =>
           model.arrests_this_step = 0 /\ model.reports_this_step = 0
    /\ (pc = "stepping" \/ Rows # <<>>) =>
           /\ model.arrests_this_step >= 0
           /\ model.arrests_this_step = model.calls.intervene_agent
           /\ model.reports_this_step >= 0
           /\ model.reports_this_step = model.calls.report_suspicious_activity

\* the end of a second step in which an arrest and a report were made,
\* after a first step with another count of arrests
C4_Witness ==
    /\ pc = "idle"
    /\ Len(Rows) = 2
    /\ model.arrests_this_step >= 1
    /\ model.reports_this_step >= 1
    /\ Rows[1].ArrestsThisStep # model.arrests_this_step

\* C5: an inactive agent stays inactive and no arrest_count decreases,
\* whatever call is made
C5_ActiveMonotonic ==
    [][\A a \in Ids(model) :
           /\ ~Agents[a].active => ~model'.agents[a].active
           /\ model'.agents[a].arrest_count >= Agents[a].arrest_count]_vars

\* an agent that is inactive after a caller's own call, a policy
\* intervention and two steps
C5_Witness ==
    /\ Inactive # {}
    /\ driver.api > 0 /\ driver.policy > 0 /\ driver.steps = 2

\* C6: the network's nodes and the inactive agents together number the
\* agents created at construction, and the registry holds exactly those
C6_NodesPlusInactive ==
    /\ Cardinality(Nodes(model.network)) + Cardinality(Inactive)
           = total_agents(model.params)
    /\ Ids(model) = 0..(total_agents(model.params) - 1)

\* an agent has been deactivated and others remain
C6_Witness ==
    /\ Inactive # {}
    /\ Nodes(model.network) # {}

InUnit(x) == 0 <= x /\ x <= One

\* C7: after every step legitimacy, risk_tolerance, social_capital and
\* detection_exposure of every agent are within [0, 1]
C7_ClampedAttributes ==
    pc = "idle" =>
        \A a \in Ids(model) :
            /\ InUnit(Agents[a].legitimacy)
            /\ InUnit(Agents[a].risk_tolerance)
            /\ InUnit(Agents[a].social_capital)
            /\ InUnit(Agents[a].detection_exposure)

\* after two steps a Facilitator's legitimacy has met the cap and its
\* detection_exposure the floor
C7_Witness ==
    /\ pc = "idle"
    /\ Len(Rows) = 2
    /\ \E a \in Ids(model) :
          /\ Agents[a].role = "Facilitator"
          /\ Agents[a].legitimacy = One
          /\ Agents[a].detection_exposure = 0

\* C8: with no Authority every row records zero arrests and the role counts
\* of construction, no agent is ever arrested or deactivated, and the
\* network is never modified
C8_NoAuthorityNoArrest ==
    /\ [](model.params.n_authorities = 0 =>
            /\ model.arrests_this_step = 0
            /\ \A a \in Ids(model) :
                   Agents[a].active /\ Agents[a].arrest_count = 0
            /\ \A k \in 1..Len(Rows) :
                   /\ Rows[k].ArrestsThisStep = 0
                   /\ Rows[k].ActiveLeaders = model.params.n_leaders
                   /\ Rows[k].ActiveOperatives = model.params.n_operatives
                   /\ Rows[k].ActiveBrokers = model.params.n_brokers
                   /\ Rows[k].ActiveFacilitators = model.params.n_facilitators)
    /\ [][model.params.n_authorities = 0 =>
              model'.network = model.network]_vars

\* two steps of an engine without Authority in which a report was made
C8_Witness ==
    /\ model.params.n_authorities = 0
    /\ pc = "idle"
    /\ Len(Rows) = 2
    /\ Rows[1].ActiveLeaders = 1
    /\ Rows[2].ReportsThisStep > 0

\* C9: intervene_agent on an inactive agent changes no agent, not the
\* network and not the arrest counter, and raises nothing
C9_InterveneInactiveNoOp ==
    [][\A id \in Ids(model) :
           (/\ lastOp' = [op |-> "intervene_agent", id |-> id, active |-> FALSE]
            /\ driver'.api = driver.api + 1)
           => /\ model'.agents = model.agents
              /\ model'.network = model.network
              /\ model'.arrests_this_step = model.arrests_this_step
              /\ pc' = "idle"]_vars

\* a caller has just called intervene_agent on an agent arrested twice
C9_Witness ==
    /\ lastOp.op = "intervene_agent"
    /\ lastOp.id \in Inactive
    /\ ~lastOp.active
    /\ Agents[lastOp.id].arrest_count = 2

\* C10: report_suspicious_activity(id) adds one to reports_this_step, sets
\* the target's detection_exposure to min(1.0, old + 0.2) whether or not
\* the target is active, and changes nothing else
C10_ReportFrame ==
    [][\A id \in Ids(model) :
           (/\ lastOp'.op = "report_suspicious_activity"
            /\ lastOp'.id = id
            /\ driver'.api = driver.api + 1)
           => /\ model'.reports_this_step = model.reports_this_step + 1
              /\ model'.agents =
                     [model.agents EXCEPT ![id].detection_exposure =
                                              Min(One, @ + 200)]
              /\ model'.arrests_this_step = model.arrests_this_step
              /\ model'.network = model.network
              /\ model'.running = model.running
              /\ model'.recent_arrest_rate = model.recent_arrest_rate
              /\ model'.datacollector = model.datacollector]_vars

\* a caller has just reported an inactive agent, whose exposure met the cap
C10_Witness ==
    /\ lastOp.op = "report_suspicious_activity"
    /\ lastOp.id \in Inactive
    /\ ~lastOp.active
    /\ Agents[lastOp.id].detection_exposure = One

\* a caller's own apply_policy_intervention call is the step being taken
PolicyCalled ==
    /\ lastOp'.op = "apply_policy_intervention"
    /\ driver'.api = driver.api + 1

\* C11: a monitoring intervention sets every Authority's monitoring_capacity
\* to min(1.0, old + 0.3 * intensity), so 0.5 becomes 0.8 at intensity 1.0
\* and the value never exceeds 1.0, and changes no other agent
C11_MonitoringCapped ==
    [][(PolicyCalled /\ lastOp'.kind = "monitoring") =>
           \A a \in Ids(model) :
               IF Agents[a].role = "Authority"
               THEN /\ model'.agents[a] =
                           [Agents[a] EXCEPT !.monitoring_capacity =
                               Min(One, @ + (3 * lastOp'.intensity) \div 10)]
                    /\ model'.agents[a].monitoring_capacity <= One
                    /\ (Agents[a].monitoring_capacity = 500
                            /\ lastOp'.intensity = 1000)
                           => model'.agents[a].monitoring_capacity = 800
               ELSE model'.agents[a] = Agents[a]]_vars

\* a second monitoring intervention of intensity 1.0 has met the cap
C11_Witness ==
    /\ lastOp.op = "apply_policy_intervention"
    /\ lastOp.kind = "monitoring"
    /\ lastOp.intensity = 1000
    /\ driver.api = 2
    /\ model.params.initial_monitoring_capacity = 500
    /\ \E a \in Ids(model) :
           Agents[a].role = "Authority" /\ Agents[a].monitoring_capacity = One

\* C12: apply_policy_intervention with a kind it does not know raises
\* nothing and leaves the whole engine as it was
C12_UnknownKindNoOp ==
    [][(PolicyCalled /\ lastOp'.kind \notin
            {"monitoring", "economic_support", "community_engagement"})
           => model' = model /\ pc' = "idle"]_vars

\* an unknown kind was applied after a step that made an arrest
C12_Witness ==
    /\ lastOp.op = "apply_policy_intervention"
    /\ lastOp.kind = "unknown"
    /\ driver.api > 0
    /\ Rows # <<>>
    /\ model.arrests_this_step > 0

\* C13: an engine on which step() can be called was built with no negative
\* role count and with network_k below the number of agents
C13_InvalidConfigRejected ==
    (pc = "idle" /\ driver.steps < MaxSteps) =>
        /\ \A r \in 1..Len(Roles) : Counts(model.params)[r] >= 0
        /\ model.params.network_k < total_agents(model.params)

\* C14: the metrics log holds one row per finished step() call; a
\* transition leaves the recorded rows as they are and adds at most one,
\* at the end of a step, holding the counters and the active-role counts
\* the engine has once every agent has acted
C14_OneRowPerStep ==
    /\ [](Len(Rows) = driver.steps)
    /\ [][/\ Len(model'.datacollector) \in {Len(Rows), Len(Rows) + 1}
          /\ SubSeq(model'.datacollector, 1, Len(Rows)) = Rows
          /\ Len(model'.datacollector) = Len(Rows) + 1 =>
                 LET row == model'.datacollector[Len(Rows) + 1]
                 IN /\ pc = "stepping" /\ pending = {}
                    /\ row.ArrestsThisStep = model.arrests_this_step
                    /\ row.ReportsThisStep = model.reports_this_step
                    /\ row.ActiveLeaders = count_active_by_role(model, "Leader")
                    /\ row.ActiveOperatives =
                           count_active_by_role(model, "Operative")
                    /\ row.ActiveBrokers = count_active_by_role(model, "Broker")
                    /\ row.ActiveFacilitators =
                           count_active_by_role(model, "Facilitator")]_vars

\* two steps and an intervention have left two different rows, the second
\* with an arrest
C14_Witness ==
    /\ pc = "idle"
    /\ Len(Rows) = 2
    /\ driver.policy > 0
    /\ Rows[1] # Rows[2]
    /\ Rows[2].ArrestsThisStep > 0

\* C15: a recorded TotalResources is the resources of the active agents
\* plus those of the inactive ones, a recorded AverageDetectionExposure is
\* the mean over the active agents (0 when there is none), and an
\* intervene_agent call leaves total_resources as it was
C15_TotalsOverRegistry ==
    [][LET m2 == model'
           act == {a \in Ids(m2) : m2.agents[a].active}
           res == [a \in Ids(m2) |-> m2.agents[a].resources]
           exp == [a \in Ids(m2) |-> m2.agents[a].detection_exposure]
       IN /\ (lastOp'.op = "intervene_agent" /\ driver'.api = driver.api + 1)
                 => total_resources(m2) = total_resources(model)
          /\ Len(m2.datacollector) = Len(Rows) + 1 =>
                 LET row == m2.datacollector[Len(Rows) + 1]
                 IN /\ row.TotalResources =
                           SumOver(res, act) + SumOver(res, Ids(m2) \ act)
                    /\ row.AverageDetectionExposure =
                           IF act = {} THEN 0
                           ELSE SumOver(exp, act) \div Cardinality(act)]_vars

\* a row was recorded after a caller's intervene_agent deactivated an agent
\* that holds resources, while another agent is active
C15_Witness ==
    /\ pc = "idle"
    /\ Rows # <<>>
    /\ lastOp.op = "intervene_agent"
    /\ lastOp.id \in Inactive
    /\ Agents[lastOp.id].resources > 0
    /\ Inactive # Ids(model)
    /\ Rows[Len(Rows)].TotalResources = total_resources(model)

C17_NoStepAfterStop ==
    /\ ~model.running => pc = "idle"
    /\ \A k \in 1..Len(Rows) : RowIllicit(Rows[k]) = 0 => k = Len(Rows)

\* C18: an active Leader with resources r above 0.3 and an Operative or
\* Broker neighbour gives away a tenth of r (to the rounding of the
\* fixed-point division), in equal shares to its Operative and Broker
\* neighbours, and loses what it gives; a Leader with r at most 0.3 or
\* without neighbours gives nothing
C18_LeaderGivesTenth ==
    [][\A a \in pending :
           (/\ pc = "stepping" /\ pending' = pending \ {a}
            /\ Agents[a].role = "Leader" /\ Agents[a].active) =>
               LET nb == neighbors(model.network, a)
                   ob == {b \in {nb[i] : i \in 1..Len(nb)} :
                             Agents[b].role \in {"Operative", "Broker"}}
                   r == Agents[a].resources
                   loss == r - model'.agents[a].resources
                   gain(b) == model'.agents[b].resources - Agents[b].resources
               IN IF r > 300 /\ ob # {}
                  THEN /\ \A b \in ob : gain(b) * Cardinality(ob) = loss
                       /\ loss <= r \div 10
                       /\ loss >= (r \div 10) - Cardinality(ob)
                  ELSE \A b \in Ids(model) : gain(b) = 0]_vars

\* C19: recent_arrest_rate is 0 until the first step ends and changes only
\* at the end of a step, to arrests_this_step over the active illicit
\* agents counted then (0 if none), so every activation of one step reads
\* the rate of the step before; an active agent's risk_tolerance is
\* multiplied by 0.95 exactly when that rate is above 0.1 (an Operative
\* under economic stress then adds its 0.05)
C19_RateOfPreviousStep ==
    /\ [](Rows = <<>> => model.recent_arrest_rate = 0)
    /\ [][/\ model'.recent_arrest_rate # model.recent_arrest_rate =>
                 pc = "stepping" /\ pending = {} /\ pc' = "idle"
          /\ Len(model'.datacollector) = Len(Rows) + 1 =>
                 model'.recent_arrest_rate =
                     IF active_illicit(model) > 0
                     THEN (model.arrests_this_step * One)
                              \div active_illicit(model)
                     ELSE 0
          /\ \A a \in pending :
                 (pc = "stepping" /\ pending' = pending \ {a}) =>
                     LET risk == Agents[a].risk_tolerance
                         adjusted == IF model.recent_arrest_rate > 100
                                     THEN (risk * 95) \div 100 ELSE risk
                     IN model'.agents[a].risk_tolerance =
                            IF ~Agents[a].active THEN risk
                            ELSE IF Agents[a].role = "Operative"
                                     /\ Agents[a].economic_stress > 700
                            THEN Min(One, adjusted + 50)
                            ELSE adjusted]_vars

\* in a second step, after a first one with a rate above 0.1, a Leader has
\* acted and lowered its risk_tolerance while other agents have yet to act
C19_Witness ==
    /\ pc = "stepping"
    /\ Len(Rows) = 1
    /\ model.recent_arrest_rate > 100
    /\ pending # {}
    /\ \E a \in Ids(model) \ pending :
           /\ Agents[a].role = "Leader" /\ Agents[a].active
           /\ Agents[a].risk_tolerance = 570

\* C20: in a run of steps and policy interventions every Facilitator,
\* CommunityMember and Authority keeps arrest_count 0, stays active and
\* stays a node of the network; and each activation of an Authority runs
\* the scan: whoever it arrests is an active Leader, Operative or Broker of
\* the registry, and its intervention_resources end at
\* min(1.0, old - 0.1 per arrest + 0.05)
C20_OnlyIllicitArrested ==
    /\ [](\A a \in Ids(model) :
              Agents[a].role \notin IllicitRoles =>
                  /\ Agents[a].arrest_count = 0
                  /\ Agents[a].active
                  /\ a \in Nodes(model.network))
    /\ [][\A a \in pending :
              (/\ pc = "stepping" /\ pending' = pending \ {a}
               /\ Agents[a].role = "Authority") =>
                  LET arrested == {b \in Ids(model) :
                                      model'.agents[b].arrest_count
                                          = Agents[b].arrest_count + 1}
                      k == model'.arrests_this_step - model.arrests_this_step
                  IN /\ k = Cardinality(arrested)
                     /\ \A b \in arrested :
                            Agents[b].role \in IllicitRoles /\ Agents[b].active
                     /\ model'.agents[a].intervention_resources =
                            Min(One, Agents[a].intervention_resources
                                         - 100 * k + 50)]_vars

\* the engine's only Authority has arrested an agent that is not one of
\* its neighbours, with a CommunityMember in the population
C20_Witness ==
    /\ model.params.n_authorities = 1
    /\ model.params.n_community_members = 1
    /\ \E a, b \in Nodes(model.network) :
           /\ Agents[a].role = "Authority"
           /\ Agents[b].arrest_count = 1
           /\ \A i \in 1..Len(neighbors(model.network, a)) :
                  neighbors(model.network, a)[i] # b

\* C21: the step of an Authority that makes k arrests leaves its
\* intervention_resources at min(1.0, old - 0.1 * k + 0.05), whatever the
\* old value, and nothing else changes them; so they are at most 1.0 at a
\* step boundary, and nothing keeps them at or above 0.0
C21_InterventionResources ==
    /\ [](\A a \in Ids(model) :
              Agents[a].role = "Authority" =>
                  Agents[a].intervention_resources <= One)
    /\ [][\A a \in Ids(model) :
              Agents[a].role = "Authority" =>
                  IF pc = "stepping" /\ a \in pending /\ pending' = pending \ {a}
                  THEN model'.agents[a].intervention_resources =
                           Min(One, Agents[a].intervention_resources
                                        - 100 * (model'.arrests_this_step
                                                   - model.arrests_this_step)
                                        + 50)
                  ELSE model'.agents[a].intervention_resources =
                           Agents[a].intervention_resources]_vars

\* a step boundary at which an Authority's intervention_resources are
\* negative: its last arrests were made with nothing left
C21_Witness ==
    /\ pc = "idle"
    /\ \E a \in Ids(model) :
           /\ Agents[a].role = "Authority"
           /\ Agents[a].intervention_resources < 0
    /\ model.arrests_this_step = 6

\* the edges of G between the nodes in S
Restricted(G, S) == {e \in Edges(G) : e \subseteq S}

\* C22: the network's nodes are exactly the ids of the active agents; its
\* edges are those of a graph the constructor can build, restricted to the
\* remaining nodes; no transition adds a node or an edge, and a transition
\* that removes nodes removes exactly the edges incident to them
C22_NetworkOnlyShrinks ==
    /\ [](/\ Nodes(model.network) = {a \in Ids(model) : Agents[a].active}
          /\ \E G0 \in watts_strogatz_graph(total_agents(model.params),
                                             model.params.network_k) :
                 Edges(model.network) = Restricted(G0, Nodes(model.network)))
    /\ [][/\ Nodes(model'.network) \subseteq Nodes(model.network)
          /\ Edges(model'.network)
                 = Restricted(model.network, Nodes(model'.network))]_vars

\* a node has been removed, one of its edges went with it, and an edge
\* between remaining nodes is still there
C22_Witness ==
    /\ Inactive # {}
    /\ Edges(model.network) # {}
    /\ \E G0 \in watts_strogatz_graph(total_agents(model.params),
                                       model.params.network_k) :
           /\ Edges(model.network) = Restricted(G0, Nodes(model.network))
           /\ \E e \in Edges(G0) : e \cap Inactive # {}

\* C23: an economic_support intervention sets every Operative's
\* economic_stress to max(0.0, old - 0.3 * intensity) and adds
\* 0.2 * intensity to the resources of every Operative and CommunityMember,
\* active or not; a community_engagement intervention sets every
\* CommunityMember's reporting_propensity to min(1.0, old + 0.2 * intensity);
\* both leave the other agents, the counters, running and the network alone
C23_SupportAndEngagement ==
    [][/\ (PolicyCalled /\ lastOp'.kind = "economic_support") =>
              model' = [model EXCEPT !.agents = Explicit([a \in Ids(model) |->
                  IF Agents[a].role = "Operative"
                  THEN [Agents[a] EXCEPT
                           !.economic_stress =
                               Max(0, @ - (3 * lastOp'.intensity) \div 10),
                           !.resources = @ + (2 * lastOp'.intensity) \div 10]
                  ELSE IF Agents[a].role = "CommunityMember"
                  THEN [Agents[a] EXCEPT
                           !.resources = @ + (2 * lastOp'.intensity) \div 10]
                  ELSE Agents[a]])]
       /\ (PolicyCalled /\ lastOp'.kind = "community_engagement") =>
              model' = [model EXCEPT !.agents = Explicit([a \in Ids(model) |->
                  IF Agents[a].role = "CommunityMember"
                  THEN [Agents[a] EXCEPT
                           !.reporting_propensity =
                               Min(One, @ + (2 * lastOp'.intensity) \div 10)]
                  ELSE Agents[a]])]]_vars

\* economic support has just been applied to an engine with a deactivated
\* Operative, a CommunityMember and an Authority
C23_Witness ==
    /\ pc = "idle"
    /\ lastOp.op = "apply_policy_intervention"
    /\ lastOp.kind = "economic_support"
    /\ driver.api > 0
    /\ \E a \in Inactive : Agents[a].role = "Operative"
    /\ \E a \in Ids(model) : Agents[a].role = "CommunityMember"
    /\ \E a \in Ids(model) : Agents[a].role = "Authority"

C25_TwoArrestsDeactivate ==
    /\ [](\A a \in Ids(model) : Agents[a].arrest_count <= 2)
    /\ [][\A a \in Ids(model) :
              /\ model'.agents[a].arrest_count
                     \in {Agents[a].arrest_count, Agents[a].arrest_count + 1}
              /\ (lastOp' = [op |-> "intervene_agent", id |-> a, active |-> TRUE]
                      /\ driver'.api = driver.api + 1)
                     => model'.agents[a].arrest_count = Agents[a].arrest_count + 1
              /\ (Agents[a].arrest_count = 0 /\ model'.agents[a].arrest_count = 1)
                     => /\ model'.agents[a].active
                        /\ a \in Nodes(model'.network)
                        /\ lastOp'.op = "intervene_agent"
                               => model'.network = model.network
              /\ (Agents[a].arrest_count = 1 /\ model'.agents[a].arrest_count = 2)
                     => /\ ~model'.agents[a].active
                        /\ a \notin Nodes(model'.network)]_vars

\* a caller's two intervene_agent calls, with no step taken, have
\* deactivated an agent and another agent is still a node
C25_Witness ==
    /\ lastOp.op = "intervene_agent"
    /\ lastOp.active
    /\ driver.api = 2 /\ driver.steps = 0
    /\ \E a \in Ids(model) :
           /\ lastOp.id = a
           /\ Agents[a].arrest_count = 2
           /\ ~Agents[a].active
           /\ a \notin Nodes(model.network)
    /\ Nodes(model.network) # {}

Authorities(m) == {a \in Ids(m) : m.agents[a].role = "Authority"}

\* C26: one activation raises an agent's arrest_count by at most one, so
\* since the step began no arrest_count has grown by more than the number of
\* Authorities that have acted, and arrests_this_step is at most the number
\* of Authorities times the illicit agents active when the step began; with
\* one Authority, an agent whose arrest_count was 0 when the step began is
\* still active
C26_ArrestsPerStep ==
    /\ [](/\ \A x \in Ids(model) :
                 Agents[x].arrest_count <=
                     twin.agents[x].arrest_count
                         + Cardinality(Authorities(model) \ pending)
          /\ model.arrests_this_step <=
                 Cardinality(Authorities(model)) * active_illicit(twin)
          /\ Cardinality(Authorities(model)) = 1 =>
                 \A x \in Ids(model) :
                     twin.agents[x].arrest_count = 0 => Agents[x].active)
    /\ [][\A x \in Ids(model) :
              model'.agents[x].arrest_count <= Agents[x].arrest_count + 1]_vars

\* with two Authorities, an agent never arrested when the step began has
\* been arrested twice in the step and is deactivated
C26_Witness ==
    /\ Cardinality(Authorities(model)) >= 2
    /\ model.arrests_this_step = 2
    /\ \E x \in Ids(model) :
           /\ twin.agents[x].arrest_count = 0
           /\ twin.agents[x].active
           /\ Agents[x].arrest_count = 2
           /\ ~Agents[x].active

====
